---- MODULE Spec2Model ----
(***************************************************************************)
(* TransmissionHelper (src/TransmissionHelper.py): the cleanup and         *)
(* storage_delta commands of one TransmissionHelper instance, together     *)
(* with the three things they act on: the volume's free space, the         *)
(* Transmission daemon's torrent list and the download directory.          *)
(*                                                                         *)
(* Sizes are counted in GiB.  Seeding ratios are whole numbers.  A name is *)
(* the sequence of the code points of its characters, so that Python's     *)
(* str equality and str ordering are modelled by what they compare.        *)
(***************************************************************************)
EXTENDS Integers, Sequences, FiniteSets, TLC

\* ---------------------------------------------------------------- bounds
MaxTransfers == 2      \* torrents known to the daemon in a cleanup run
MaxSize == 2           \* largest total_size of a torrent
MaxDeficit == 2        \* how far below MIN_FREE_SPACE the volume starts
MaxDrift == 1          \* writes of other processes to the volume during a run
MaxTracked == 2        \* torrents known to the daemon in a storage_delta run
MaxEntries == 2        \* entries of the download directory
MaxCalls == 2          \* calls of cleanup on one instance (SpecReuse only)

\* ------------------------------------------------------ program constants
MIN_FREE_SPACE == 100  \* 100 * 1024 * 1024 * 1024 bytes, in GiB
DEFAULT_MIN_SEED_RATIO == 3

VARIABLES
    op,            \* the command main() dispatches to
    clean_mode,    \* CleanMode passed to cleanup
    execute,       \* the -x flag
    MIN_SEED_RATIO,\* class attribute TransmissionHelper.MIN_SEED_RATIO
    pc,            \* position of the running command
    daemon,        \* the daemon's torrents, in the order get_torrents returns them
    diskFree,      \* shutil.disk_usage(...)[2] of the volume
    drift,         \* writes of other processes so far
    disk,          \* the download directory: set of [name, kind]
    dirState,      \* "ok", "notdir" or "unreadable": the download directory path
    client,        \* self.client is set
    torrent_list,
    torrent_list_min_ratio,
    torrent_list_min_ratio_size,
    torrent_list_min_free_space,
    torrent_list_min_free_space_size,
    space_to_free,         \* local of cleanup, free-space mode
    total_torrents_to_clean, \* local of cleanup, free-space mode
    dl_dir_list,
    dl_extra_list,
    idx,           \* position of the deletion loop in dl_extra_list
    verdict,       \* which of the two closing messages cleanup logged
    events,        \* history: probes, connect, fetch and removal requests in order
    probes,        \* history: the values the probes of the decision points returned
    fetched,       \* history: the list client.get_torrents returned last
    removals,      \* history: the id lists passed to client.remove_torrent
    attempts,      \* history: [name, outcome] of every unlink
    plans,         \* history: one record per cleanup call that computed a target list
    calls          \* cleanup calls started on this instance

vars == <<op, clean_mode, execute, MIN_SEED_RATIO, pc, daemon, diskFree, drift,
          disk, dirState, client, torrent_list, torrent_list_min_ratio,
          torrent_list_min_ratio_size, torrent_list_min_free_space,
          torrent_list_min_free_space_size, space_to_free,
          total_torrents_to_clean, dl_dir_list, dl_extra_list, idx, verdict,
          events, probes, fetched, removals, attempts, plans, calls>>

\* ------------------------------------------------------------ input sets
Sizes == 0..MaxSize
Ratios == (DEFAULT_MIN_SEED_RATIO - 1)..(DEFAULT_MIN_SEED_RATIO + 1)
ScenarioSeedRatios == {DEFAULT_MIN_SEED_RATIO - 2, DEFAULT_MIN_SEED_RATIO - 1}
FreeSpaces == (MIN_FREE_SPACE - MaxDeficit)..(MIN_FREE_SPACE + 1)

\* "A", "AB", "B", "a"
Names == {<<65>>, <<65, 66>>, <<66>>, <<97>>}
Kinds == {"file", "dir"}

Torrent(i, n, s, r) == [id |-> i, name |-> n, total_size |-> s, upload_ratio |-> r]

\* torrent lists of a cleanup run: ids are the positions, names do not matter
CleanupLists ==
    UNION {{[i \in 1..n |-> Torrent(i, <<65>>, f[i][1], f[i][2])] :
                f \in [1..n -> Sizes \X Ratios]} : n \in 0..MaxTransfers}

\* five 20GiB torrents with ratios 5,4,3,2,1, on a volume with 10GiB free
ScenarioFree == MIN_FREE_SPACE - 90
ScenarioList ==
    [i \in 1..5 |-> Torrent(i, <<65>>, 20, 6 - i)]

\* torrent lists of a storage_delta run: only the names matter
TrackedLists ==
    UNION {{[i \in 1..n |-> Torrent(i, f[i], 1, DEFAULT_MIN_SEED_RATIO)] :
                f \in [1..n -> Names]} : n \in 0..MaxTracked}

\* download directories: distinct names, each a file or a directory
Directories ==
    UNION {{{[name |-> e, kind |-> k[e]] : e \in S} : k \in [S -> Kinds]} :
                S \in {T \in SUBSET Names : Cardinality(T) <= MaxEntries}}

\* ---------------------------------------------------------------- helpers
RECURSIVE SumSizes(_)
SumSizes(l) ==
    IF l = <<>> THEN 0 ELSE l[1].total_size + SumSizes(Tail(l))

Ids(l) == [i \in 1..Len(l) |-> l[i].id]

\* InsertByRatio as a sort that reverses the torrents of equal ratio
\* (sort ascending, then reverse)
RECURSIVE InsertByRatio_TiesReversed(_, _)
InsertByRatio_TiesReversed(t, l) ==
    IF l = <<>> THEN <<t>>
    ELSE IF l[1].upload_ratio > t.upload_ratio
         THEN <<l[1]>> \o InsertByRatio_TiesReversed(t, Tail(l))
         ELSE <<t>> \o l

\* list.sort(reverse=True, key=upload_ratio): stable, equal ratios keep their order
RECURSIVE InsertByRatio(_, _)
InsertByRatio(t, l) ==
    IF l = <<>> THEN <<t>>
    ELSE IF l[1].upload_ratio >= t.upload_ratio
         THEN <<l[1]>> \o InsertByRatio(t, Tail(l))
         ELSE <<t>> \o l

RECURSIVE SortByRatioDesc(_)
SortByRatioDesc(l) ==
    IF l = <<>> THEN <<>>
    ELSE InsertByRatio(l[Len(l)], SortByRatioDesc(SubSeq(l, 1, Len(l) - 1)))

\* filter(lambda torrent: torrent.upload_ratio >= self.MIN_SEED_RATIO, ...)
HasMinRatio(t, min_ratio) == t.upload_ratio >= min_ratio

RECURSIVE FilterMinRatio(_, _)
FilterMinRatio(l, min_ratio) ==
    IF l = <<>> THEN <<>>
    ELSE (IF HasMinRatio(l[1], min_ratio) THEN <<l[1]>> ELSE <<>>)
             \o FilterMinRatio(Tail(l), min_ratio)

\* Walk passing over the torrents that free nothing
RECURSIVE Walk_SkipEmpty(_, _, _, _)
Walk_SkipEmpty(l, total, acc, target) ==
    IF l = <<>> THEN <<total, acc>>
    ELSE IF total < target
         THEN Walk_SkipEmpty(Tail(l), total + l[1].total_size,
                             IF l[1].total_size = 0 THEN acc ELSE Append(acc, l[1]),
                             target)
         ELSE <<total, acc>>

\* Walk going on while the total has not passed the target
RECURSIVE Walk_OneMore(_, _, _, _)
Walk_OneMore(l, total, acc, target) ==
    IF l = <<>> THEN <<total, acc>>
    ELSE IF total <= target
         THEN Walk_OneMore(Tail(l), total + l[1].total_size, Append(acc, l[1]), target)
         ELSE <<total, acc>>

\* the loop of cleanup over torrent_list_min_ratio: the result is
\* <<total_torrents_to_clean, torrent_list_min_free_space>>
RECURSIVE Walk(_, _, _, _)
Walk(l, total, acc, target) ==
    IF l = <<>> THEN <<total, acc>>
    ELSE IF total < target
         THEN Walk(Tail(l), total + l[1].total_size, Append(acc, l[1]), target)
         ELSE <<total, acc>>

IsEnoughFreeSpace(free) == free > MIN_FREE_SPACE

\* str.lower() on the letters A..Z
Lower(a) == [i \in 1..Len(a) |-> IF a[i] >= 65 /\ a[i] <= 90 THEN a[i] + 32 ELSE a[i]]

\* NameMatches as a comparison that ignores case
NameMatches_IgnoreCase(a, b) == Lower(a) = Lower(b)

\* torrent.name == item, on str: the same code points in the same order
NameMatches(a, b) == a = b

\* a < b on str, as list.sort() of dl_extra_list compares: by code point,
\* a proper prefix first
RECURSIVE StrLess(_, _)
StrLess(a, b) ==
    IF b = <<>> THEN FALSE
    ELSE IF a = <<>> THEN TRUE
    ELSE IF a[1] # b[1] THEN a[1] < b[1]
    ELSE StrLess(Tail(a), Tail(b))

RECURSIVE InsertName(_, _)
InsertName(n, l) ==
    IF l = <<>> THEN <<n>>
    ELSE IF StrLess(n, l[1]) THEN <<n>> \o l
    ELSE <<l[1]>> \o InsertName(n, Tail(l))

RECURSIVE SortNames(_)
SortNames(l) ==
    IF l = <<>> THEN <<>>
    ELSE InsertName(l[Len(l)], SortNames(SubSeq(l, 1, Len(l) - 1)))

\* the inner loop of storage_delta: item_found
ItemFound(item, torrents) ==
    \E i \in 1..Len(torrents) : NameMatches(torrents[i].name, item)

\* the outer loop of storage_delta: dl_extra_list before it is sorted
RECURSIVE ExtraItems(_, _)
ExtraItems(listing, torrents) ==
    IF listing = <<>> THEN <<>>
    ELSE (IF ItemFound(listing[1], torrents) THEN <<>> ELSE <<listing[1]>>)
             \o ExtraItems(Tail(listing), torrents)

\* os.listdir: the names of the entries, in an order the OS chooses
Listings(d) ==
    LET names == {e.name : e \in d}
        n == Cardinality(names)
    IN  {l \in [1..n -> names] : \A i, j \in 1..n : i # j => l[i] # l[j]}

KindOf(d, n) == (CHOOSE e \in d : e.name = n).kind

\* ------------------------------------------------------------------ Init
Fresh ==
    /\ pc = "start"
    /\ drift = 0
    /\ client = FALSE
    /\ torrent_list = <<>>
    /\ torrent_list_min_ratio = <<>>
    /\ torrent_list_min_ratio_size = 0
    /\ torrent_list_min_free_space = <<>>
    /\ torrent_list_min_free_space_size = 0
    /\ space_to_free = 0
    /\ total_torrents_to_clean = 0
    /\ dl_dir_list = <<>>
    /\ dl_extra_list = <<>>
    /\ idx = 1
    /\ verdict = "none"
    /\ events = <<>>
    /\ probes = <<>>
    /\ fetched = <<>>
    /\ removals = <<>>
    /\ attempts = <<>>
    /\ plans = <<>>
    /\ calls = 1

\* MIN_SEED_RATIO is the class attribute: 3.0 unless the class is given
\* another value (main() looks its flags up under 'min-ratio' and
\* 'min-free-space', keys argparse never sets, so the flags change nothing)
InitCleanup ==
    /\ op = "cleanup"
    /\ clean_mode \in {"free_space", "seed_ratio"}
    /\ execute \in BOOLEAN
    /\ \/ /\ MIN_SEED_RATIO = DEFAULT_MIN_SEED_RATIO
          /\ daemon \in CleanupLists
          /\ diskFree \in FreeSpaces
       \/ /\ MIN_SEED_RATIO \in ScenarioSeedRatios
          /\ daemon = ScenarioList
          /\ diskFree = ScenarioFree
    /\ disk = {}
    /\ dirState = "ok"

InitStorageDelta ==
    /\ op = "storage_delta"
    /\ clean_mode = "none"
    /\ execute \in BOOLEAN
    /\ MIN_SEED_RATIO = DEFAULT_MIN_SEED_RATIO
    /\ daemon \in TrackedLists
    /\ diskFree = MIN_FREE_SPACE
    /\ disk \in Directories
    /\ dirState \in {"ok", "notdir", "unreadable"}

Init == Fresh /\ (InitCleanup \/ InitStorageDelta)

\* --------------------------------------------------------------- cleanup
Terminal == {"done", "exit0", "exit1", "exit3", "exit_connect"}

\* the variables only storage_delta writes
deltaVars == <<disk, dirState, dl_dir_list, dl_extra_list, idx, attempts>>
\* the parameters of the run
runVars == <<op, clean_mode, execute, MIN_SEED_RATIO, calls>>
\* the fields __get_torrents_data writes
dataVars == <<torrent_list, torrent_list_min_ratio, torrent_list_min_ratio_size, fetched>>
\* what cleanup computes in free-space mode
planVars == <<torrent_list_min_free_space, torrent_list_min_free_space_size,
              space_to_free, total_torrents_to_clean>>

\* cleanup, "if self.__is_enough_free_space(): ... exit(0)"
ProbeFirst ==
    /\ pc = "start"
    /\ op = "cleanup"
    /\ probes' = Append(probes, diskFree)
    /\ events' = Append(events, "probe")
    /\ pc' = IF IsEnoughFreeSpace(diskFree) THEN "exit0" ELSE "connect"
    /\ UNCHANGED <<runVars, dataVars, planVars, deltaVars, daemon, diskFree, drift,
                   client, verdict, removals, plans>>

\* __connect: the Client is built, or the process exits with -1
Connect ==
    /\ \/ pc = "connect"
       \/ pc = "start" /\ op = "storage_delta"
    /\ \/ /\ client' = TRUE
          /\ events' = Append(events, "connect")
          /\ pc' = "fetch"
       \/ /\ pc' = "exit_connect"
          /\ UNCHANGED <<client, events>>
    /\ UNCHANGED <<runVars, dataVars, planVars, deltaVars, daemon, diskFree, drift,
                   verdict, probes, removals, plans>>

\* __get_torrents_data
GetTorrentsData ==
    /\ pc = "fetch"
    /\ fetched' = daemon
    /\ torrent_list' = SortByRatioDesc(daemon)
    /\ torrent_list_min_ratio' = FilterMinRatio(torrent_list', MIN_SEED_RATIO)
    /\ torrent_list_min_ratio_size' =
           torrent_list_min_ratio_size + SumSizes(torrent_list_min_ratio')
    /\ events' = Append(events, "fetch")
    /\ pc' = IF op = "cleanup" THEN "check" ELSE "checkdir"
    /\ UNCHANGED <<runVars, planVars, deltaVars, daemon, diskFree, drift, client,
                   verdict, probes, removals, plans>>

\* cleanup, "if self.torrent_list_min_ratio_size == 0.0: ... exit(1)"
CheckMaterial ==
    /\ pc = "check"
    /\ pc' = IF torrent_list_min_ratio_size = 0 THEN "exit1" ELSE "plan"
    /\ UNCHANGED <<runVars, dataVars, planVars, deltaVars, daemon, diskFree, drift,
                   client, verdict, events, probes, removals, plans>>

\* cleanup, case CleanMode.MIN_FREE_SPACE, up to the debug line
PlanFreeSpace ==
    /\ pc = "plan"
    /\ clean_mode = "free_space"
    /\ space_to_free' = MIN_FREE_SPACE - diskFree
    /\ LET w == Walk(torrent_list_min_ratio, 0, torrent_list_min_free_space,
                     space_to_free')
       IN  /\ total_torrents_to_clean' = w[1]
           /\ torrent_list_min_free_space' = w[2]
    /\ torrent_list_min_free_space_size' =
           torrent_list_min_free_space_size + SumSizes(torrent_list_min_free_space')
    /\ probes' = Append(probes, diskFree)
    /\ events' = Append(events, "probe")
    /\ plans' = Append(plans, [free |-> diskFree, list |-> fetched,
                               ids |-> Ids(torrent_list_min_free_space'),
                               size |-> torrent_list_min_free_space_size'])
    /\ pc' = "remove"
    /\ UNCHANGED <<runVars, dataVars, deltaVars, daemon, diskFree, drift, client,
                   verdict, removals>>

\* cleanup, case CleanMode.MIN_SEED_RATIO, up to the debug line
PlanSeedRatio ==
    /\ pc = "plan"
    /\ clean_mode = "seed_ratio"
    /\ plans' = Append(plans, [free |-> probes[1], list |-> fetched,
                               ids |-> Ids(torrent_list_min_ratio),
                               size |-> torrent_list_min_ratio_size])
    /\ pc' = "remove"
    /\ UNCHANGED <<runVars, dataVars, planVars, deltaVars, daemon, diskFree, drift,
                   client, verdict, events, probes, removals>>

\* the ids cleanup hands to __remove_torrents
TargetIds ==
    IF clean_mode = "free_space" THEN Ids(torrent_list_min_free_space)
    ELSE Ids(torrent_list_min_ratio)

InIds(i, ids) == \E k \in 1..Len(ids) : ids[k] = i

\* client.remove_torrent(ids, delete_data=True): the daemon forgets the torrents
\* and deletes their data from the volume
RECURSIVE Keep(_, _)
Keep(l, ids) ==
    IF l = <<>> THEN <<>>
    ELSE (IF InIds(l[1].id, ids) THEN <<>> ELSE <<l[1]>>) \o Keep(Tail(l), ids)

\* RemoveTorrents without its "if execute:"
RemoveTorrents_Unguarded ==
    /\ pc = "remove"
    /\ removals' = Append(removals, TargetIds)
    /\ daemon' = Keep(daemon, TargetIds)
    /\ diskFree' = diskFree + (SumSizes(daemon) - SumSizes(daemon'))
    /\ events' = Append(events, "remove")
    /\ pc' = "verdict"
    /\ UNCHANGED <<runVars, dataVars, planVars, deltaVars, drift, client, verdict,
                   probes, plans>>

\* cleanup, "if execute: ... self.__remove_torrents(...)" of either mode
RemoveTorrents ==
    /\ pc = "remove"
    /\ IF execute
       THEN /\ removals' = Append(removals, TargetIds)
            /\ daemon' = Keep(daemon, TargetIds)
            /\ diskFree' = diskFree + (SumSizes(daemon) - SumSizes(daemon'))
            /\ events' = Append(events, "remove")
       ELSE UNCHANGED <<removals, daemon, diskFree, events>>
    /\ pc' = "verdict"
    /\ UNCHANGED <<runVars, dataVars, planVars, deltaVars, drift, client, verdict,
                   probes, plans>>

\* CheckResults deciding from the first probe plus the bytes selected
CheckResults_Projected ==
    /\ pc = "verdict"
    /\ probes' = Append(probes, diskFree)
    /\ events' = Append(events, "probe")
    /\ verdict' = IF probes[1] + (IF clean_mode = "free_space"
                                  THEN torrent_list_min_free_space_size
                                  ELSE torrent_list_min_ratio_size) >= MIN_FREE_SPACE
                  THEN "enough" ELSE "still_below"
    /\ pc' = "done"
    /\ UNCHANGED <<runVars, dataVars, planVars, deltaVars, daemon, diskFree, drift,
                   client, removals, plans>>

\* cleanup, "Check for the cleaning results"
CheckResults ==
    /\ pc = "verdict"
    /\ probes' = Append(probes, diskFree)
    /\ events' = Append(events, "probe")
    /\ verdict' = IF diskFree >= MIN_FREE_SPACE THEN "enough" ELSE "still_below"
    /\ pc' = "done"
    /\ UNCHANGED <<runVars, dataVars, planVars, deltaVars, daemon, diskFree, drift,
                   client, removals, plans>>

\* another process writes 1GiB to the volume while cleanup runs
DiskDrift ==
    /\ op = "cleanup"
    /\ pc \notin Terminal
    /\ drift < MaxDrift
    /\ diskFree > 0
    /\ diskFree' = diskFree - 1
    /\ drift' = drift + 1
    /\ UNCHANGED <<runVars, dataVars, planVars, deltaVars, pc, daemon, client,
                   verdict, events, probes, removals, plans>>

\* --------------------------------------------------------- storage_delta
cleanupVars == <<daemon, diskFree, drift, client, verdict, events, probes,
                 removals, plans>>

\* storage_delta, the isdir and access checks: exit(3)
CheckDir ==
    /\ pc = "checkdir"
    /\ pc' = IF dirState = "ok" THEN "listdir" ELSE "exit3"
    /\ UNCHANGED <<runVars, dataVars, planVars, deltaVars, cleanupVars>>

\* storage_delta, from os.listdir to the "Found %s extra items" line, and the
\* "if execute:" that follows it
ListDir ==
    /\ pc = "listdir"
    /\ \E l \in Listings(disk) :
          /\ dl_dir_list' = l
          /\ dl_extra_list' = SortNames(ExtraItems(l, torrent_list))
    /\ idx' = 1
    /\ pc' = IF execute /\ dl_extra_list' # <<>> THEN "delete" ELSE "done"
    /\ UNCHANGED <<runVars, dataVars, planVars, cleanupVars, disk, dirState,
                   attempts>>

\* what Path(...).unlink() can do to entry f of kind k: a file is unlinked or
\* the call raises; on a directory it raises IsADirectoryError (Linux) or
\* PermissionError (macOS); an entry that is gone by now raises
\* FileNotFoundError
UnlinkOutcomes(k) ==
    IF k = "file"
    THEN {"deleted", "FileNotFoundError", "PermissionError", "OSError"}
    ELSE {"FileNotFoundError", "PermissionError", "IsADirectoryError"}

\* Unlink without the except clauses: the first exception ends the process
Unlink_Uncaught ==
    /\ pc = "delete"
    /\ LET f == dl_extra_list[idx]
           k == KindOf(disk, f)
       IN  \E o \in UnlinkOutcomes(k) :
              /\ attempts' = Append(attempts, [name |-> f, kind |-> k, outcome |-> o])
              /\ disk' = IF o \in {"deleted", "FileNotFoundError"}
                         THEN {e \in disk : e.name # f}
                         ELSE disk
              /\ pc' = IF o # "deleted" THEN "traceback"
                       ELSE IF idx = Len(dl_extra_list) THEN "done" ELSE "delete"
    /\ idx' = idx + 1
    /\ UNCHANGED <<runVars, dataVars, planVars, cleanupVars, dirState,
                   dl_dir_list, dl_extra_list>>

\* Unlink looping over the listing instead of the extra items
Unlink_FromListing ==
    /\ pc = "delete"
    /\ LET f == dl_dir_list[idx]
           k == KindOf(disk, f)
       IN  \E o \in UnlinkOutcomes(k) :
              /\ attempts' = Append(attempts, [name |-> f, kind |-> k, outcome |-> o])
              /\ disk' = IF o \in {"deleted", "FileNotFoundError"}
                         THEN {e \in disk : e.name # f}
                         ELSE disk
    /\ idx' = idx + 1
    /\ pc' = IF idx = Len(dl_extra_list) THEN "done" ELSE "delete"
    /\ UNCHANGED <<runVars, dataVars, planVars, cleanupVars, dirState,
                   dl_dir_list, dl_extra_list>>

\* storage_delta, one round of "for f in dl_extra_list": every exception is
\* caught and the loop goes on
Unlink ==
    /\ pc = "delete"
    /\ LET f == dl_extra_list[idx]
           k == KindOf(disk, f)
       IN  \E o \in UnlinkOutcomes(k) :
              /\ attempts' = Append(attempts, [name |-> f, kind |-> k, outcome |-> o])
              /\ disk' = IF o \in {"deleted", "FileNotFoundError"}
                         THEN {e \in disk : e.name # f}
                         ELSE disk
    /\ idx' = idx + 1
    /\ pc' = IF idx = Len(dl_extra_list) THEN "done" ELSE "delete"
    /\ UNCHANGED <<runVars, dataVars, planVars, cleanupVars, dirState,
                   dl_dir_list, dl_extra_list>>

\* ------------------------------------------------------- specifications
Next ==
    \/ ProbeFirst
    \/ Connect
    \/ GetTorrentsData
    \/ CheckMaterial
    \/ PlanFreeSpace
    \/ PlanSeedRatio
    \/ RemoveTorrents
    \/ CheckResults
    \/ DiskDrift
    \/ CheckDir
    \/ ListDir
    \/ Unlink

\* main(): one instance, one command
Spec == Init /\ [][Next]_vars

\* cleanup is called again on the instance it returned from, with the same
\* arguments: the fields __init__ set are not set again
CleanupAgain ==
    /\ pc = "done"
    /\ op = "cleanup"
    /\ calls < MaxCalls
    /\ calls' = calls + 1
    /\ pc' = "start"
    /\ verdict' = "none"
    /\ events' = <<>>
    /\ probes' = <<>>
    /\ UNCHANGED <<op, clean_mode, execute, MIN_SEED_RATIO, dataVars, planVars,
                   deltaVars, daemon, diskFree, drift, client, removals, plans>>

NextReuse == Next \/ CleanupAgain

SpecReuse == Init /\ [][NextReuse]_vars

\* ---------------------------------------------------------------- claims
InSeq(x, l) == \E i \in 1..Len(l) : l[i] = x
ById(l, i) == CHOOSE t \in {l[k] : k \in 1..Len(l)} : t.id = i

\* C1: a cleanup run whose first probe finds free >= MIN_FREE_SPACE, equality
\* included, ends at once (exit 0) with nothing selected, and never connects
\* to the daemon nor fetches the torrent list.
C1_EnoughSpaceEndsRun ==
    (op = "cleanup" /\ probes # <<>> /\ probes[1] >= MIN_FREE_SPACE)
        => /\ pc = "exit0"
           /\ ~client
           /\ ~InSeq("connect", events) /\ ~InSeq("fetch", events)
           /\ torrent_list_min_free_space = <<>>
           /\ removals = <<>>

\* C2: no torrent whose ratio is <= MIN_SEED_RATIO, equality included, is in
\* an id list passed to remove_torrent, in either clean mode; and the five
\* 20GiB torrents with ratios 5,4,3,2,1 and MIN_SEED_RATIO = 2 give exactly
\* the three torrents with ratios 5,4,3.
C2_LowRatioNeverRemoved ==
    /\ \A r \in 1..Len(removals) : \A k \in 1..Len(removals[r]) :
          ById(fetched, removals[r][k]).upload_ratio > MIN_SEED_RATIO
    /\ (fetched = ScenarioList /\ MIN_SEED_RATIO = 2 /\ clean_mode = "free_space"
           /\ plans # <<>>)
          => plans[1].ids = <<1, 2, 3>>

\* C3: with execute false no step of cleanup or storage_delta sends a removal
\* request, changes the daemon's torrent list, unlinks anything or changes
\* the download directory.
C3_PreviewChangesNothing ==
    [][~execute => /\ daemon' = daemon
                   /\ disk' = disk
                   /\ removals' = removals
                   /\ attempts' = attempts]_vars

\* a preview run of cleanup that got as far as its closing message with
\* torrents to remove, none of which the daemon lost
C3_Witness ==
    /\ ~execute
    /\ op = "cleanup"
    /\ pc = "done"
    /\ TargetIds # <<>>
    /\ daemon = fetched

\* position of torrent t in the list get_torrents returned
PosIn(l, t) == CHOOSE k \in 1..Len(l) : l[k].id = t.id

\* t comes before u in the fetched list sorted by ratio descending, equal
\* ratios in their fetched order
Precedes(t, u) ==
    \/ t.upload_ratio > u.upload_ratio
    \/ /\ t.upload_ratio = u.upload_ratio
       /\ PosIn(fetched, t) < PosIn(fetched, u)

\* C4: in free-space mode the selected torrents, in selection order, are a
\* prefix of the fetched list sorted by ratio descending with equal ratios in
\* their fetched order: they are fetched torrents, they are in that order,
\* and every fetched torrent left out comes after every selected one.
C4_SelectionIsSortedPrefix ==
    (op = "cleanup" /\ clean_mode = "free_space")
        => LET sel == torrent_list_min_free_space
           IN  /\ \A i \in 1..Len(sel) : InSeq(sel[i], fetched)
               /\ \A i, j \in 1..Len(sel) : i < j => Precedes(sel[i], sel[j])
               /\ \A k \in 1..Len(fetched) :
                     ~InSeq(fetched[k], sel)
                         => \A i \in 1..Len(sel) : Precedes(sel[i], fetched[k])

\* a finished free-space run that selected the first of two torrents of equal
\* ratio and left the second out
C4_Witness ==
    /\ op = "cleanup" /\ clean_mode = "free_space" /\ pc = "done"
    /\ \E i, k \in 1..Len(fetched) :
          /\ i < k
          /\ fetched[i].upload_ratio = fetched[k].upload_ratio
          /\ InSeq(fetched[i], torrent_list_min_free_space)
          /\ ~InSeq(fetched[k], torrent_list_min_free_space)

EnvironmentErrors == {"FileNotFoundError", "PermissionError", "OSError"}
OnDisk(n) == \E e \in disk : e.name = n

\* C5: with execute true, when no unlink failed for an environmental reason,
\* no orphan entry, file or directory, is left in the download directory
\* when storage_delta ends.
C5_NoOrphanLeft ==
    (op = "storage_delta" /\ execute /\ pc = "done"
       /\ \A a \in 1..Len(attempts) : attempts[a].outcome \notin EnvironmentErrors)
        => \A i \in 1..Len(dl_extra_list) : ~OnDisk(dl_extra_list[i])

AttemptNames == [a \in 1..Len(attempts) |-> attempts[a].name]
BeforeDeletion == {"start", "connect", "fetch", "checkdir", "listdir",
                   "exit_connect", "exit3"}

\* C6: with execute true every orphan is unlinked exactly once, in sorted
\* order, whatever the earlier unlinks did: while the loop runs the attempts
\* are the orphans before the loop position, and once the run has left the
\* loop they are the whole orphan list; an orphan whose unlink succeeded is
\* no longer in the directory.
C6_EveryOrphanAttempted ==
    (op = "storage_delta" /\ execute /\ pc \notin BeforeDeletion)
        => /\ pc \in {"delete", "done"}
           /\ pc = "delete" => /\ idx <= Len(dl_extra_list)
                                /\ AttemptNames = SubSeq(dl_extra_list, 1, idx - 1)
           /\ pc = "done" => AttemptNames = dl_extra_list
           /\ \A a \in 1..Len(attempts) :
                 attempts[a].outcome = "deleted" => ~OnDisk(attempts[a].name)

\* a finished run whose first unlink failed and whose second succeeded
C6_Witness ==
    /\ op = "storage_delta" /\ execute /\ pc = "done"
    /\ Len(attempts) >= 2
    /\ attempts[1].outcome # "deleted"
    /\ attempts[2].outcome = "deleted"

TrackedNames == {fetched[i].name : i \in 1..Len(fetched)}

\* C7: the orphan list is exactly the listed entries whose name is no
\* torrent's name, code point for code point, in strictly ascending
\* lexicographic order; an empty listing gives an empty orphan list.
C7_OrphansAreUntrackedSorted ==
    (op = "storage_delta" /\ pc \in {"delete", "done"})
        => /\ {dl_extra_list[i] : i \in 1..Len(dl_extra_list)}
                 = {dl_dir_list[i] : i \in 1..Len(dl_dir_list)} \ TrackedNames
           /\ \A i, j \in 1..Len(dl_extra_list) :
                 i < j => StrLess(dl_extra_list[i], dl_extra_list[j])
           /\ dl_dir_list = <<>> => dl_extra_list = <<>>

\* "A" is tracked, "a" is listed first and is an orphan, and the orphan list
\* is not in listing order
C7_Witness ==
    /\ op = "storage_delta" /\ pc = "done"
    /\ <<65>> \in TrackedNames /\ <<97>> \notin TrackedNames
    /\ Len(dl_extra_list) = 2
    /\ dl_dir_list[1] = <<97>>
    /\ dl_extra_list[2] = <<97>>

\* C8: in a cleanup run a probe of the free space comes before the connect,
\* the fetch and any removal request; a run that reaches its closing message
\* has probed again after the removal request, that probe being its last
\* event; and the closing message is the one the free space of that moment
\* calls for (free >= MIN_FREE_SPACE).
C8_ProbeFetchRemoveProbe ==
    op = "cleanup"
        => /\ \A i \in 1..Len(events) :
                 events[i] \in {"connect", "fetch", "remove"}
                     => \E j \in 1..(i - 1) : events[j] = "probe"
           /\ \A i, j \in 1..Len(events) :
                 (events[i] = "fetch" /\ events[j] = "remove") => i < j
           /\ verdict # "none" <=> pc = "done"
           /\ pc = "done"
                 => /\ events[Len(events)] = "probe"
                    /\ \A i \in 1..Len(events) :
                          events[i] = "remove"
                              => \E j \in (i + 1)..Len(events) : events[j] = "probe"
                    /\ probes[Len(probes)] = diskFree
                    /\ verdict = IF diskFree >= MIN_FREE_SPACE
                                 THEN "enough" ELSE "still_below"

\* a run with -x that sent a removal request covering the deficit of its
\* first probe, and still closed with the "still below" message
C8_Witness ==
    /\ op = "cleanup" /\ execute /\ pc = "done"
    /\ InSeq("remove", events)
    /\ removals[1] # <<>>
    /\ probes[1] + SumSizes(torrent_list_min_free_space) >= MIN_FREE_SPACE
    /\ clean_mode = "free_space"
    /\ verdict = "still_below"

\* C9: two cleanup calls on one instance that saw the same free space and
\* fetched the same torrent list computed the same target ids and the same
\* total size.
C9_SamePlanTwice ==
    \A i, j \in 1..Len(plans) :
        (plans[i].free = plans[j].free /\ plans[i].list = plans[j].list)
            => /\ plans[i].ids = plans[j].ids
               /\ plans[i].size = plans[j].size

C11_NeverOverSelects ==
    (op = "cleanup" /\ clean_mode = "free_space" /\ plans # <<>>)
        => LET sel == torrent_list_min_free_space
           IN  /\ \A i \in 1..Len(sel) :
                     SumSizes(SubSeq(sel, 1, i - 1)) < space_to_free
               /\ SumSizes(FilterMinRatio(SortByRatioDesc(fetched), MIN_SEED_RATIO))
                      >= space_to_free
                    => SumSizes(sel) >= space_to_free

\* a finished run that covered the space to free and left a torrent that
\* passes the ratio filter unselected
C11_Witness ==
    /\ op = "cleanup" /\ clean_mode = "free_space" /\ pc = "done"
    /\ space_to_free > 0
    /\ torrent_list_min_free_space # <<>>
    /\ Len(torrent_list_min_free_space) < Len(torrent_list_min_ratio)
    /\ SumSizes(torrent_list_min_free_space) >= space_to_free

\* C12: storage_delta with execute true unlinks no entry that bears the name
\* of a torrent it fetched: every name handed to unlink is a name of the
\* listing and no torrent's name, and every listed entry that bears a
\* torrent's name is still in the directory.
C12_TrackedNeverUnlinked ==
    (op = "storage_delta" /\ execute)
        => /\ \A a \in 1..Len(attempts) :
                 /\ attempts[a].name \notin TrackedNames
                 /\ InSeq(attempts[a].name, dl_dir_list)
           /\ \A i \in 1..Len(dl_dir_list) :
                 dl_dir_list[i] \in TrackedNames => OnDisk(dl_dir_list[i])

\* a finished run that unlinked an orphan out of a directory that also holds
\* a torrent's entry, listed first
C12_Witness ==
    /\ op = "storage_delta" /\ execute /\ pc = "done"
    /\ \E a \in 1..Len(attempts) : attempts[a].outcome = "deleted"
    /\ dl_dir_list # <<>>
    /\ dl_dir_list[1] \in TrackedNames
    /\ OnDisk(dl_dir_list[1])

====
